---- MODULE Spec2Model ----
(***************************************************************************)
(* Model of src/app.py: the Streamlit dashboard that loads a ';'-separated *)
(* sales CSV, trains one ARIMA model per product, pickles it to a file     *)
(* named after the product, and forecasts future months.                   *)
(*                                                                         *)
(* Strings whose characters matter (column names, product names, file      *)
(* names, CSV cells) are sequences of atoms; an atom is one character or   *)
(* one run of characters that no operation of the program looks inside.    *)
(* An optional value (Python's None) is a sequence of length 0 or 1.       *)
(***************************************************************************)
EXTENDS Integers, Sequences, FiniteSets, TLC

VARIABLES
    uploaded_file,   \* st.file_uploader's value: None or the CSV file
    cache,           \* @st.cache_data of load_data: the files already loaded
    session_df,      \* st.session_state["df"]
    session_model,   \* st.session_state["model_<produk>"], per product
    files,           \* the working directory: file name -> pickled model
    last             \* what the last script run / call did (its inputs and results)

vars == <<uploaded_file, cache, session_df, session_model, files, last>>

None == <<>>
Some(x) == <<x>>

(***************************************************************************)
(* Bounds of the model.                                                    *)
(***************************************************************************)
MaxCols == 4     \* columns of a generated CSV header
MaxRows == 3     \* rows of a generated CSV body
MaxNeg == 2      \* how far below 0 a horizon passed to forecast_stock goes

(***************************************************************************)
(* str.replace(old, new): every non-overlapping occurrence of old, scanned *)
(* from the left, becomes new; the result is not scanned again.            *)
(***************************************************************************)
RECURSIVE StrReplace(_, _, _)
StrReplace(s, old, new) ==
    IF Len(s) < Len(old) THEN s
    ELSE IF SubSeq(s, 1, Len(old)) = old
         THEN new \o StrReplace(SubSeq(s, Len(old) + 1, Len(s)), old, new)
         ELSE <<Head(s)>> \o StrReplace(Tail(s), old, new)

BOM == <<"i:", ">>", "?~">>          \* the three characters of the BOM artifact
TANGGAL == <<"Tanggal">>
PRODUK == <<"Produk">>
JUMLAH == <<"Jumlah Terjual">>

Range(s) == {s[i] : i \in 1..Len(s)}
Count(s, x) == Cardinality({i \in 1..Len(s) : s[i] = x})
Pos(s, x) == CHOOSE i \in 1..Len(s) : s[i] = x /\ \A j \in 1..(i - 1) : s[j] # x
Without(s, i) == SubSeq(s, 1, i - 1) \o SubSeq(s, i + 1, Len(s))

(***************************************************************************)
(* Timestamps.  pd.to_datetime(format="%Y-%m") reads "YYYY-MM" as the      *)
(* first day of that month; anything else is NaT under errors="coerce".    *)
(***************************************************************************)
NaT == [y |-> 0, m |-> 0, d |-> 0]
YearOf == ("2023" :> 2023) @@ ("2024" :> 2024)
MonthOf == ("01" :> 1) @@ ("02" :> 2) @@ ("03" :> 3) @@ ("04" :> 4)
        @@ ("05" :> 5) @@ ("06" :> 6) @@ ("07" :> 7) @@ ("08" :> 8)
        @@ ("09" :> 9) @@ ("10" :> 10) @@ ("11" :> 11) @@ ("12" :> 12)

to_datetime(cell) ==
    IF /\ Len(cell) = 3
       /\ cell[2] = "-"
       /\ cell[1] \in DOMAIN YearOf
       /\ cell[3] \in DOMAIN MonthOf
    THEN [y |-> YearOf[cell[1]], m |-> MonthOf[cell[3]], d |-> 1]
    ELSE NaT

IsLeap(y) == (y % 4 = 0 /\ y % 100 # 0) \/ y % 400 = 0
DaysInMonth(y, m) ==
    IF m = 2 THEN (IF IsLeap(y) THEN 29 ELSE 28)
    ELSE IF m \in {4, 6, 9, 11} THEN 30 ELSE 31

\* Timestamp order
Before(a, b) ==
    \/ a.y < b.y
    \/ a.y = b.y /\ a.m < b.m
    \/ a.y = b.y /\ a.m = b.m /\ a.d < b.d

\* ts + pd.DateOffset(months=1): next month, the day clipped to its length
AddMonth(ts) ==
    LET ny == IF ts.m = 12 THEN ts.y + 1 ELSE ts.y
        nm == IF ts.m = 12 THEN 1 ELSE ts.m + 1
        nd == IF ts.d > DaysInMonth(ny, nm) THEN DaysInMonth(ny, nm) ELSE ts.d
    IN [y |-> ny, m |-> nm, d |-> nd]

\* the month end on or after ts (the anchor of frequency "M")
MonthEnd(ts) == [y |-> ts.y, m |-> ts.m, d |-> DaysInMonth(ts.y, ts.m)]
\* the month end that follows a month end
NextMonthEnd(ts) == MonthEnd(AddMonth([ts EXCEPT !.d = 1]))

\* Timestamp.strftime('%Y-%m'): year and month, the day is dropped
strftime(ts) == <<ts.y, ts.m>>

\* index.max() / index.min(); NaT for an empty index
IndexMax(idx) ==
    IF idx = <<>> THEN NaT
    ELSE CHOOSE t \in Range(idx) : \A u \in Range(idx) : ~Before(t, u)
IndexMin(idx) ==
    IF idx = <<>> THEN NaT
    ELSE CHOOSE t \in Range(idx) : \A u \in Range(idx) : ~Before(u, t)

(***************************************************************************)
(* pd.read_csv: a file is its header line and its rows of cells.  An empty *)
(* file raises; a repeated column name gets the suffix ".<k>".             *)
(***************************************************************************)
DupSuffix == <<".1", ".2", ".3", ".4", ".5">>
read_csv_columns(header) ==
    [i \in 1..Len(header) |->
        LET k == Cardinality({j \in 1..(i - 1) : header[j] = header[i]})
        IN IF k = 0 THEN header[i] ELSE header[i] \o <<DupSuffix[k]>>]

\* df.columns.str.replace(BOM, "")
strip_bom(columns) == [i \in 1..Len(columns) |-> StrReplace(columns[i], BOM, <<>>)]

\* the guard of line 22
missing_column_Mut(columns) ==
    /\ TANGGAL \notin Range(columns)
    /\ PRODUK \notin Range(columns)
    /\ JUMLAH \notin Range(columns)
missing_column(columns) ==
    \/ TANGGAL \notin Range(columns)
    \/ PRODUK \notin Range(columns)
    \/ JUMLAH \notin Range(columns)

\* df.dropna(subset=["Tanggal"]): the positions of the rows that stay
dropna_Mut(parsed) == [i \in 1..Len(parsed) |-> i]
dropna(parsed) == SelectSeq([i \in 1..Len(parsed) |-> i], LAMBDA i : parsed[i] # NaT)

ERR_SCHEMA == "File CSV harus memiliki kolom: 'Tanggal', 'Produk', dan 'Jumlah Terjual'."
ERR_READ == "Gagal membaca file CSV"

(***************************************************************************)
(* The body of load_data (lines 18-34): what it returns, the error it      *)
(* shows, and whether it stored the table in the session.                  *)
(***************************************************************************)
load_data_body(file) ==
    IF file.header = <<>>
    THEN [ret |-> None, err |-> Some(ERR_READ), stored |-> FALSE]     \* read_csv raises
    ELSE
    LET columns == strip_bom(read_csv_columns(file.header)) IN
    IF missing_column(columns)
    THEN [ret |-> None, err |-> Some(ERR_SCHEMA), stored |-> FALSE]
    ELSE IF Count(columns, TANGGAL) # 1
    THEN \* df["Tanggal"] is no single column: KeyError, or to_datetime of a frame raises
         [ret |-> None, err |-> Some(ERR_READ), stored |-> FALSE]
    ELSE
    LET pos == Pos(columns, TANGGAL)
        parsed == [i \in 1..Len(file.rows) |-> to_datetime(file.rows[i][pos])]
        keep == dropna(parsed)
        df == [index |-> [k \in 1..Len(keep) |-> parsed[keep[k]]],
               columns |-> Without(columns, pos),
               rows |-> [k \in 1..Len(keep) |-> Without(file.rows[keep[k]], pos)]]
    IN [ret |-> Some(df), err |-> None, stored |-> TRUE]

(***************************************************************************)
(* load_data under @st.cache_data (line 16): a file seen before returns    *)
(* the cached value and replays the cached st.error, and the body, with    *)
(* its write to the session, does not run.                                 *)
(***************************************************************************)
load_data(file) ==
    LET r == load_data_body(file) IN
    IF file \in cache
    THEN [ret |-> r.ret, err |-> r.err, session_df |-> session_df, cache |-> cache]
    ELSE [ret |-> r.ret, err |-> r.err,
          session_df |-> IF r.stored THEN r.ret ELSE session_df,
          cache |-> cache \cup {file}]

(***************************************************************************)
(* Data frames: index (after set_index), column names, rows of cells.      *)
(***************************************************************************)
Column(df, name) == LET c == Pos(df.columns, name) IN [i \in 1..Len(df.rows) |-> df.rows[i][c]]

\* df[df["Produk"] == produk]
filter_produk(df, produk) ==
    LET col == Column(df, PRODUK)
        keep == SelectSeq([i \in 1..Len(df.rows) |-> i], LAMBDA i : col[i] = produk)
    IN [index |-> [k \in 1..Len(keep) |-> df.index[keep[k]]],
        columns |-> df.columns,
        rows |-> [k \in 1..Len(keep) |-> df.rows[keep[k]]]]

\* df["Produk"].unique()
unique_produk(df) == Range(Column(df, PRODUK))

\* the number read_csv made of a cell; an empty cell is NaN, which sum() skips
NumOf == ("0" :> 0) @@ ("5" :> 5) @@ ("10" :> 10) @@ ("15" :> 15)
to_number(cell) == IF Len(cell) = 1 /\ cell[1] \in DOMAIN NumOf THEN NumOf[cell[1]] ELSE 0

RECURSIVE SumOver(_, _)
SumOver(f, S) ==
    IF S = {} THEN 0
    ELSE LET i == CHOOSE j \in S : TRUE IN f[i] + SumOver(f, S \ {i})

\* pd.date_range(first, last, freq="M"): the month ends from first through last
RECURSIVE month_ends(_, _)
month_ends(first, stop) ==
    IF Before(stop, first) THEN <<>>
    ELSE <<first>> \o month_ends(NextMonthEnd(first), stop)

NaN == 0 - 1

\* .resample('M').sum(): one bin per month from the first to the last observed
\* month, labelled by its month end; an empty bin sums to 0
resample_sum(index, values) ==
    IF index = <<>> THEN <<>>
    ELSE LET bins == month_ends(MonthEnd(IndexMin(index)), MonthEnd(IndexMax(index)))
         IN [k \in 1..Len(bins) |->
                [Tanggal |-> bins[k],
                 Jumlah |-> SumOver(values, {i \in 1..Len(index) : MonthEnd(index[i]) = bins[k]})]]

\* .asfreq('M'): reindex on the full monthly range, NaN where no entry exists
asfreq(series) ==
    IF series = <<>> THEN <<>>
    ELSE LET bins == month_ends(series[1].Tanggal, series[Len(series)].Tanggal)
         IN [k \in 1..Len(bins) |->
                [Tanggal |-> bins[k],
                 Jumlah |-> IF \E i \in 1..Len(series) : series[i].Tanggal = bins[k]
                            THEN series[CHOOSE i \in 1..Len(series) : series[i].Tanggal = bins[k]].Jumlah
                            ELSE NaN]]

\* .fillna(0)
fillna(series) ==
    [k \in 1..Len(series) |-> IF series[k].Jumlah = NaN THEN [series[k] EXCEPT !.Jumlah = 0] ELSE series[k]]

\* a slip: one entry per observed row month, nothing for the months in between
series_builder_Mut(df, produk) ==
    LET dp == filter_produk(df, produk)
        values == [i \in 1..Len(dp.rows) |-> to_number(dp.rows[i][Pos(dp.columns, JUMLAH)])]
        months == {MonthEnd(dp.index[i]) : i \in 1..Len(dp.index)}
        bins == SelectSeq(month_ends(MonthEnd(IndexMin(dp.index)), MonthEnd(IndexMax(dp.index))),
                          LAMBDA b : b \in months)
    IN [k \in 1..Len(bins) |->
            [Tanggal |-> bins[k],
             Jumlah |-> SumOver(values, {i \in 1..Len(dp.index) : MonthEnd(dp.index[i]) = bins[k]})]]

\* lines 46-47: the monthly series of one product
series_builder(df, produk) ==
    LET dp == filter_produk(df, produk)
        values == [i \in 1..Len(dp.rows) |-> to_number(dp.rows[i][Pos(dp.columns, JUMLAH)])]
    IN fillna(asfreq(resample_sum(dp.index, values)))

(***************************************************************************)
(* Model files.                                                            *)
(***************************************************************************)
model_filename(produk) ==
    <<"trained_arima_">> \o StrReplace(produk, <<" ">>, <<"_">>) \o <<".pkl">>

\* ARIMA(df_produk, order).fit(): the fitted model holds the series it was fitted
\* on and its order; produk records whose series that is
fit(produk, series, order) == [produk |-> produk, endog |-> series, order |-> order]

DEFAULT_ORDER == <<1, 1, 1>>

\* lines 49-53: the order the model is fitted with.  search is what auto_arima
\* gave: Some(order), or None when it raised
\* a fallback to another order
resolve_order_Mut(auto_arima_choice, pdq, search) ==
    IF auto_arima_choice
    THEN (IF search # None THEN search[1] ELSE <<0, 0, 0>>)
    ELSE pdq
resolve_order(auto_arima_choice, pdq, search) ==
    IF auto_arima_choice
    THEN (IF search # None THEN search[1] ELSE DEFAULT_ORDER)
    ELSE pdq

\* line 40: os.path.exists(model_filename)
model_exists_Mut(fs, name) == FALSE
model_exists(fs, name) == fs[name] # None

(***************************************************************************)
(* train_arima (lines 37-63).  search and fit_ok are what the library      *)
(* calls did: auto_arima's order (None: it raised), and whether fit()      *)
(* returned.  The result tells whether the call raised, what it returned,  *)
(* the order handed to ARIMA (None: ARIMA was not reached) and the files   *)
(* and session entries after the call.                                     *)
(***************************************************************************)
\* the file opened for writing before the fit (the eager overwrite)
train_arima_Mut(df, produk, auto_arima_choice, pdq, search, fit_ok) ==
    LET name == model_filename(produk) IN
    IF model_exists(files, name)
    THEN [raised |-> FALSE,
          ret |-> Some([model_fit |-> files[name][1], data |-> filter_produk(df, produk)]),
          order |-> None, files |-> files, session_model |-> session_model,
          msg |-> "Model sudah ada dan langsung digunakan."]
    ELSE
    LET df_produk == series_builder(df, produk)
        order == resolve_order(auto_arima_choice, pdq, search)
        model_fit == fit(produk, df_produk, order)
        written == [files EXCEPT ![name] = Some(model_fit)]
    IN IF ~fit_ok
       THEN [raised |-> TRUE, ret |-> None, order |-> Some(order),
             files |-> written, session_model |-> session_model, msg |-> ""]
       ELSE [raised |-> FALSE,
             ret |-> Some([model_fit |-> model_fit, data |-> df_produk]),
             order |-> Some(order),
             files |-> written,
             session_model |-> [session_model EXCEPT ![produk] = Some(model_fit)],
             msg |-> "Model berhasil dilatih"]
train_arima(df, produk, auto_arima_choice, pdq, search, fit_ok) ==
    LET name == model_filename(produk) IN
    IF model_exists(files, name)
    THEN [raised |-> FALSE,
          ret |-> Some([model_fit |-> files[name][1], data |-> filter_produk(df, produk)]),
          order |-> None, files |-> files, session_model |-> session_model,
          msg |-> "Model sudah ada dan langsung digunakan."]
    ELSE
    LET df_produk == series_builder(df, produk)
        order == resolve_order(auto_arima_choice, pdq, search)
        model_fit == fit(produk, df_produk, order)
    IN IF ~fit_ok
       THEN [raised |-> TRUE, ret |-> None, order |-> Some(order),
             files |-> files, session_model |-> session_model, msg |-> ""]
       ELSE [raised |-> FALSE,
             ret |-> Some([model_fit |-> model_fit, data |-> df_produk]),
             order |-> Some(order),
             files |-> [files EXCEPT ![name] = Some(model_fit)],
             session_model |-> [session_model EXCEPT ![produk] = Some(model_fit)],
             msg |-> "Model berhasil dilatih"]

\* lines 66-71
load_model_for_product(produk) ==
    LET name == model_filename(produk) IN
    IF files[name] # None THEN files[name] ELSE None

(***************************************************************************)
(* forecast_stock (lines 74-82).                                           *)
(***************************************************************************)
\* model_fit.forecast(steps): statsmodels raises "Prediction must have `end`
\* after `start`" unless steps >= 1; [ok, values]
model_forecast_Mut(model_fit, steps) ==
    IF steps < 0 THEN [ok |-> FALSE, values |-> <<>>]
    ELSE [ok |-> TRUE, values |-> [k \in 1..steps |-> [step |-> k, order |-> model_fit.order]]]
model_forecast(model_fit, steps) ==
    IF steps < 1 THEN [ok |-> FALSE, values |-> <<>>]
    ELSE [ok |-> TRUE, values |-> [k \in 1..steps |-> [step |-> k, order |-> model_fit.order]]]

\* pd.date_range(start, periods=n, freq="M"): n month ends, the first one the
\* month end on or after start
RECURSIVE date_range(_, _)
date_range(start, periods) ==
    IF periods = 0 THEN <<>>
    ELSE <<MonthEnd(start)>> \o date_range(AddMonth([start EXCEPT !.d = 1]), periods - 1)

\* line 78 with an off-by-one: the range starts at the last observed month
forecast_months_Mut(last_date, bulan_ke_depan) == date_range(last_date, bulan_ke_depan)
\* line 78
forecast_months(last_date, bulan_ke_depan) == date_range(AddMonth(last_date), bulan_ke_depan)

\* the result: None under the except clause, else Some(rows of the table)
forecast_stock(model, df, bulan_ke_depan) ==
    LET last_date == IndexMax(df.index) IN
    IF model = None THEN None                                   \* None has no forecast()
    ELSE LET fc == model_forecast(model[1], bulan_ke_depan) IN
    IF ~fc.ok THEN None
    ELSE IF last_date = NaT \/ bulan_ke_depan < 0 THEN None      \* date_range raises
    ELSE LET months == forecast_months(last_date, bulan_ke_depan) IN
    IF Len(months) # Len(fc.values) THEN None                   \* DataFrame raises
    ELSE Some([k \in 1..Len(months) |->
                 [Bulan |-> strftime(months[k]), Prediksi |-> fc.values[k]]])

(***************************************************************************)
(* The "Prediksi Stok" page below the product selection (lines 118-127):   *)
(* the warning shown, whether forecast_stock was called and with which     *)
(* model, and the table it gave.                                           *)
(***************************************************************************)
WARN_UPLOAD == "Pastikan Anda telah mengunggah data terlebih dahulu."
WARN_TRAIN == "Model belum dilatih untuk produk ini. Silakan latih model terlebih dahulu."

\* the page without the test of line 121
prediksi_stok_Mut(df, produk, bulan_ke_depan, clicked) ==
    LET trained_model == load_model_for_product(produk) IN
    IF clicked
    THEN [warning |-> None, button |-> TRUE, called |-> TRUE, model |-> trained_model,
          forecast_df |-> forecast_stock(trained_model, filter_produk(df, produk), bulan_ke_depan)]
    ELSE [warning |-> None, button |-> TRUE, called |-> FALSE, model |-> None,
          forecast_df |-> None]
\* button: whether the run rendered the "Lakukan Prediksi" button (line 124)
prediksi_stok(df, produk, bulan_ke_depan, clicked) ==
    LET trained_model == load_model_for_product(produk) IN
    IF trained_model = None
    THEN [warning |-> Some(WARN_TRAIN), button |-> FALSE, called |-> FALSE, model |-> None,
          forecast_df |-> None]
    ELSE IF clicked
    THEN [warning |-> None, button |-> TRUE, called |-> TRUE, model |-> trained_model,
          forecast_df |-> forecast_stock(trained_model, filter_produk(df, produk), bulan_ke_depan)]
    ELSE [warning |-> None, button |-> TRUE, called |-> FALSE, model |-> None,
          forecast_df |-> None]

(***************************************************************************)
(* Inputs.                                                                 *)
(***************************************************************************)
SeqsUpTo(S, n) == UNION {[1..k -> S] : k \in 0..n}

P_AB == <<"A", " ", "B">>
P_A_B == <<"A", "_", "B">>
P_C == <<"C">>
Products == {P_AB, P_A_B, P_C}
ModelFilenames == {model_filename(p) : p \in Products}

Text(y, m) == <<y, "-", m>>
Row(t, p, j) == <<t, p, <<j>>>>

\* column names a header is made of; the last one holds the artifact nested in itself
ColNames ==
    {TANGGAL, BOM \o TANGGAL, PRODUK, JUMLAH, <<"Qty">>,
     <<"i:", "i:", ">>", "?~", ">>", "?~", "Tanggal">>}
GoodHeader == <<BOM \o TANGGAL, PRODUK, JUMLAH>>

RowPool ==
    <<Row(Text("2023", "11"), P_AB, "10"),
      Row(Text("2024", "02"), P_AB, "5"),
      Row(Text("2023", "11"), P_C, "15"),
      Row(Text("2023", "13"), P_AB, "5"),
      Row(Text("2024", "01"), P_A_B, "10"),
      Row(Text("2023", "11"), P_AB, "5")>>

\* a row cut or padded to w cells
Fit_width(row, w) == SubSeq(row \o [i \in 1..w |-> <<"x">>], 1, w)
FixedRows(w) == [i \in 1..3 |-> Fit_width(RowPool[<<1, 4, 3>>[i]], w)]

HeaderUploads == {[header |-> h, rows |-> FixedRows(Len(h))] : h \in SeqsUpTo(ColNames, MaxCols)}
RowUploads ==
    {[header |-> GoodHeader, rows |-> [i \in 1..Len(ix) |-> RowPool[ix[i]]]] :
        ix \in SeqsUpTo(1..Len(RowPool), MaxRows)}
DataUploads == HeaderUploads \cup RowUploads

F1 == [header |-> GoodHeader,
       rows |-> <<Row(Text("2023", "11"), P_AB, "10"),
                  Row(Text("2024", "01"), P_AB, "15"),
                  Row(Text("2024", "01"), P_C, "5")>>]
F2 == [header |-> <<TANGGAL, PRODUK, JUMLAH>>,
       rows |-> <<Row(Text("2023", "12"), P_A_B, "5"),
                  Row(Text("2023", "12"), P_AB, "10")>>]
F3 == [header |-> <<TANGGAL, JUMLAH>>,
       rows |-> <<<<Text("2023", "11"), <<"10">>>>>>]
AppUploads == {F1, F2, F3}
PriorTable == load_data_body(F2).ret[1]

\* line 104-106: the (p, d, q) typed in manual mode; what auto_arima may find
ManualOrders == {<<0, 1, 0>>, <<2, 0, 1>>}
AutoOrders == {<<1, 0, 0>>}

\* line 119: st.slider(..., 1, 24, 12)
SliderMin == 1
SliderMax == 24
SliderDefault == 12
SliderChoices == {SliderMin, 6, SliderDefault, SliderMax}

FirstOfMonth == {[y |-> y, m |-> m, d |-> 1] : y \in {2023, 2024}, m \in 1..12}
LaterMonths == {t \in FirstOfMonth : t.m \in {1, 12}}
ForecastTables ==
    {[index |-> ix, columns |-> <<PRODUK, JUMLAH>>,
      rows |-> [i \in 1..Len(ix) |-> <<P_C, <<"5">>>>]] :
        ix \in SeqsUpTo(FirstOfMonth, 1) \cup [1..2 -> LaterMonths]}
ForecastModels == {None, Some(fit(P_C, <<>>, DEFAULT_ORDER))}

(***************************************************************************)
(* The application: one session, one working directory.                    *)
(***************************************************************************)
Init ==
    /\ uploaded_file = None
    /\ cache = {}
    /\ session_df = None
    /\ session_model = [p \in Products |-> None]
    /\ files = [n \in ModelFilenames |-> None]
    /\ last = [op |-> "init"]

\* lines 92-97: a script run of the upload page with file f in the uploader
Load(f) ==
    \E r \in {load_data(f)} :
        /\ uploaded_file' = Some(f)
        /\ cache' = r.cache
        /\ session_df' = r.session_df
        /\ UNCHANGED <<session_model, files>>
        /\ last' = [op |-> "load_data", file |-> f, ret |-> r.ret, err |-> r.err,
                    before |-> session_df]

UploadFile == \E f \in AppUploads : Load(f)

\* lines 92-110: a script run of the upload page with the train button pressed
ClickTrain ==
    /\ uploaded_file # None
    /\ \E r \in {load_data(uploaded_file[1])} :
       /\ r.ret # None
       /\ \E produk \in unique_produk(r.ret[1]), auto_arima_choice \in BOOLEAN,
             typed \in ManualOrders, found \in {None} \cup {Some(o) : o \in AutoOrders},
             fit_ok \in BOOLEAN :
            LET df == r.ret[1]
                name == model_filename(produk)
                pdq == IF auto_arima_choice THEN <<1, 1, 1>> ELSE typed
                fits == ~model_exists(files, name)
                searched == fits /\ auto_arima_choice
            IN \* inputs the run does not read are fixed, not enumerated
               /\ auto_arima_choice => typed = <<0, 1, 0>>
               /\ ~searched => found = None
               /\ ~fits => fit_ok
               /\ \E t \in {train_arima(df, produk, auto_arima_choice, pdq, found, fit_ok)} :
                    /\ files' = t.files
                    /\ session_model' = t.session_model
                    /\ cache' = r.cache
                    /\ session_df' = r.session_df
                    /\ UNCHANGED uploaded_file
                    /\ last' = [op |-> "train_arima", df |-> df, produk |-> produk,
                                auto_arima_choice |-> auto_arima_choice, pdq |-> pdq,
                                searched |-> searched, search |-> found,
                                prior |-> files[name],
                                session_before |-> session_model[produk],
                                raised |-> t.raised, ret |-> t.ret, order |-> t.order]

\* lines 112-115, 138-139: the prediction page without a table in the session
PredictNoData ==
    /\ session_df = None
    /\ last' = [op |-> "Prediksi Stok", produk |-> None, bulan_ke_depan |-> SliderDefault,
                clicked |-> FALSE, warning |-> Some(WARN_UPLOAD), called |-> FALSE,
                model |-> None, forecast_df |-> None]
    /\ UNCHANGED <<uploaded_file, cache, session_df, session_model, files>>

\* lines 112-127: the prediction page with a table in the session
Predict ==
    /\ session_df # None
    /\ \E produk \in unique_produk(session_df[1]), bulan_ke_depan \in SliderChoices,
          clicked \in BOOLEAN :
         \E r \in {prediksi_stok(session_df[1], produk, bulan_ke_depan, clicked)} :
            \* only a button the page renders can have been pressed
            /\ clicked => r.button
            /\ last' = [op |-> "Prediksi Stok", produk |-> Some(produk),
                     bulan_ke_depan |-> bulan_ke_depan, clicked |-> clicked,
                     warning |-> r.warning, called |-> r.called, model |-> r.model,
                     forecast_df |-> r.forecast_df]
    /\ UNCHANGED <<uploaded_file, cache, session_df, session_model, files>>

Next == UploadFile \/ ClickTrain \/ PredictNoData \/ Predict

Spec == Init /\ [][Next]_vars

(***************************************************************************)
(* The data path alone: load_data and the series builder on generated      *)
(* uploads.                                                                *)
(***************************************************************************)
InitData ==
    /\ uploaded_file \in {Some(f) : f \in DataUploads}
    /\ session_df \in {None, Some(PriorTable)}
    /\ cache = IF session_df = None THEN {} ELSE {F2}     \* the earlier load of F2
    /\ session_model = [p \in Products |-> None]
    /\ files = [n \in ModelFilenames |-> None]
    /\ last = [op |-> "init"]

Rerun ==
    /\ uploaded_file # None
    /\ Load(uploaded_file[1])

BuildSeries ==
    /\ last.op = "load_data"
    /\ last.ret # None
    /\ \E produk \in unique_produk(last.ret[1]) :
         last' = [op |-> "series_builder", df |-> last.ret[1], produk |-> produk,
                  series |-> series_builder(last.ret[1], produk)]
    /\ UNCHANGED <<uploaded_file, cache, session_df, session_model, files>>

NextData == Rerun \/ BuildSeries

SpecData == InitData /\ [][NextData]_vars

(***************************************************************************)
(* forecast_stock alone, on generated tables and horizons, including the   *)
(* horizons the slider cannot give.                                        *)
(***************************************************************************)
InitForecast ==
    /\ uploaded_file = None
    /\ cache = {}
    /\ session_df = None
    /\ session_model = [p \in Products |-> None]
    /\ files = [n \in ModelFilenames |-> None]
    /\ last \in {[op |-> "arguments", df |-> t] : t \in ForecastTables}

CallForecast ==
    /\ \E model \in ForecastModels, bulan_ke_depan \in (0 - MaxNeg)..SliderMax :
         \E ret \in {forecast_stock(model, last.df, bulan_ke_depan)} :
            last' = [op |-> "forecast_stock", model |-> model, df |-> last.df,
                     bulan_ke_depan |-> bulan_ke_depan, ret |-> ret]
    /\ UNCHANGED <<uploaded_file, cache, session_df, session_model, files>>

NextForecast == CallForecast

SpecForecast == InitForecast /\ [][NextForecast]_vars

(***************************************************************************)
(* Properties.                                                             *)
(***************************************************************************)
MonthNo(ts) == ts.y * 12 + ts.m - 1
YearMonth(n) == <<n \div 12, (n % 12) + 1>>
Trained == last.op = "train_arima"
Completed == Trained /\ ~last.raised
Artifact == files[model_filename(last.produk)]

C2_ForecastOnlyWithModel ==
    last.op = "Prediksi Stok" =>
        /\ last.called => last.produk # None
        /\ last.produk # None =>
              LET found == load_model_for_product(last.produk[1]) IN
              /\ last.called => found # None /\ last.model = found
              /\ found = None =>
                    /\ last.warning = Some(WARN_TRAIN)
                    /\ ~last.called
                    /\ last.forecast_df = None

\* the page shown for an untrained product while another product has a model
C2_Witness ==
    /\ last.op = "Prediksi Stok"
    /\ last.produk # None
    /\ load_model_for_product(last.produk[1]) = None
    /\ last.warning = Some(WARN_TRAIN)
    /\ \E q \in Products : load_model_for_product(q) # None

Loaded == last.op = "load_data"
StrippedHeader == strip_bom(read_csv_columns(last.file.header))
Absent(name) == name \notin Range(StrippedHeader)

\* C3: an upload in which one of "Tanggal", "Produk", "Jumlah Terjual" is absent
\* after the artifact is stripped is rejected: an error is shown, no table is
\* returned, and the table stored in the session is the one stored before.
C3_MissingColumnRejected ==
    Loaded /\ (Absent(TANGGAL) \/ Absent(PRODUK) \/ Absent(JUMLAH)) =>
        /\ last.ret = None
        /\ last.err # None
        /\ last.file.header # <<>> => last.err = Some(ERR_SCHEMA)
        /\ session_df = last.before

\* an upload that lacks only "Produk", rejected while the session holds a table
C3_Witness ==
    /\ Loaded
    /\ Absent(PRODUK) /\ ~Absent(TANGGAL) /\ ~Absent(JUMLAH)
    /\ last.ret = None
    /\ last.before # None
    /\ session_df = last.before

\* C4 as stated: the returned table's index is strictly increasing by month and
\* holds no row whose date failed to parse.
C4_Original ==
    Loaded /\ last.ret # None =>
        LET idx == last.ret[1].index IN
        /\ \A i, j \in 1..Len(idx) : i < j => MonthNo(idx[i]) < MonthNo(idx[j])
        /\ \A i \in 1..Len(idx) : idx[i] # NaT

\* C4, amended: the returned table holds no row whose date failed to parse and
\* every other row of the upload, in upload order, indexed by its parsed month
\* (the index is not sorted and may repeat a month).
C4_ParsedRowsInUploadOrder ==
    Loaded /\ last.ret # None =>
        LET df == last.ret[1]
            pos == Pos(StrippedHeader, TANGGAL)
            rows == last.file.rows
            valid == {i \in 1..Len(rows) : to_datetime(rows[i][pos]) # NaT}
        IN /\ \A k \in 1..Len(df.index) : df.index[k] # NaT
           /\ Len(df.index) = Cardinality(valid)
           /\ Len(df.rows) = Cardinality(valid)
           /\ \A i \in valid :
                LET k == Cardinality({j \in valid : j <= i}) IN
                /\ df.index[k] = to_datetime(rows[i][pos])
                /\ df.rows[k] = Without(rows[i], pos)

\* a returned table that lost a row and whose index goes back in time
C4_Witness ==
    /\ Loaded
    /\ last.ret # None
    /\ Len(last.ret[1].index) < Len(last.file.rows)
    /\ \E i \in 1..(Len(last.ret[1].index) - 1) :
          MonthNo(last.ret[1].index[i + 1]) < MonthNo(last.ret[1].index[i])

Built == last.op = "series_builder"
\* the rows of the product in the table the series was built from
ProductRows == {i \in 1..Len(last.df.rows) : Column(last.df, PRODUK)[i] = last.produk}
RowsOfMonth(n) == {i \in ProductRows : MonthNo(last.df.index[i]) = n}
Quantity == [i \in 1..Len(last.df.rows) |-> to_number(Column(last.df, JUMLAH)[i])]
FirstMonth == CHOOSE n \in {MonthNo(last.df.index[i]) : i \in ProductRows} :
                 \A i \in ProductRows : n <= MonthNo(last.df.index[i])
LastMonth == CHOOSE n \in {MonthNo(last.df.index[i]) : i \in ProductRows} :
                 \A i \in ProductRows : n >= MonthNo(last.df.index[i])

\* C5: the series built for a product with at least one row has one entry for every
\* calendar month from its first to its last observed month, in order, each the
\* sum of the product's quantities in that month, 0 for a month without rows.
C5_SeriesHasNoGaps ==
    Built /\ ProductRows # {} =>
        /\ Len(last.series) = LastMonth - FirstMonth + 1
        /\ \A k \in 1..Len(last.series) :
              /\ strftime(last.series[k].Tanggal) = YearMonth(FirstMonth + k - 1)
              /\ last.series[k].Jumlah = SumOver(Quantity, RowsOfMonth(FirstMonth + k - 1))

\* a series across a year end with a zero-filled month and a month of two rows
C5_Witness ==
    /\ Built
    /\ ProductRows # {}
    /\ YearMonth(FirstMonth)[1] < YearMonth(LastMonth)[1]
    /\ \E k \in 1..Len(last.series) :
          RowsOfMonth(FirstMonth + k - 1) = {} /\ last.series[k].Jumlah = 0
    /\ \E k \in 1..Len(last.series) :
          Cardinality(RowsOfMonth(FirstMonth + k - 1)) = 2 /\ last.series[k].Jumlah = 15

Forecast == last.op = "forecast_stock"

\* C6: for a horizon H in 1..24 and a series whose last observed month is M, the
\* forecaster returns exactly H rows, for the months M+1, ..., M+H in that order.
C6_ForecastMonthsFollow ==
    /\ Forecast
    /\ last.model # None
    /\ last.df.index # <<>>
    /\ last.bulan_ke_depan \in SliderMin..SliderMax
    => /\ last.ret # None
       /\ Len(last.ret[1]) = last.bulan_ke_depan
       /\ \A k \in 1..Len(last.ret[1]) :
             last.ret[1][k].Bulan = YearMonth(MonthNo(IndexMax(last.df.index)) + k)

\* horizon 6 after 2024-01: 2024-02 through 2024-07
C6_Witness ==
    /\ Forecast
    /\ last.bulan_ke_depan = 6
    /\ IndexMax(last.df.index) = [y |-> 2024, m |-> 1, d |-> 1]
    /\ last.ret # None
    /\ [k \in 1..6 |-> last.ret[1][k].Bulan] =
          <<<<2024, 2>>, <<2024, 3>>, <<2024, 4>>, <<2024, 5>>, <<2024, 6>>, <<2024, 7>>>>

\* C7: a horizon of 0 or below makes forecast_stock fail: it returns no table, not
\* even an empty one.
C7_NonPositiveHorizonFails ==
    Forecast /\ last.bulan_ke_depan <= 0 => last.ret = None

\* horizon 0 with a model and a dated table
C7_Witness ==
    /\ Forecast
    /\ last.bulan_ke_depan = 0
    /\ last.model # None
    /\ last.df.index # <<>>
    /\ last.ret = None

C9_FitErrorChangesNothing ==
    Trained =>
        /\ last.raised =>
              /\ Artifact = last.prior
              /\ session_model[last.produk] = last.session_before
              /\ last.ret = None
        /\ Artifact # last.prior => ~last.raised /\ last.order # None

\* a fit that raised for a product without artifact, another artifact on disk
C9_Witness ==
    /\ Trained
    /\ last.raised
    /\ Artifact = None
    /\ session_model[last.produk] = None
    /\ \E n \in ModelFilenames : files[n] # None

\* C10 as stated: the model loaded for a product, and the model train_arima returns
\* for it, was fitted on that product's series, never on another product's (also
\* for two names that differ in space versus underscore).
C10_Original ==
    /\ \A p \in Products :
          load_model_for_product(p) # None => load_model_for_product(p)[1].produk = p
    /\ Completed => last.ret[1].model_fit.produk = last.produk

====
